---- MODULE Spec2Model ----
(***************************************************************************)
(* Model of crates/freenet2-node/src/ring.rs: the Ring connection table    *)
(* behind a parking_lot RwLock, the admission test should_accept, the      *)
(* median of the neighbour distances, the neighbour enumeration, the peer  *)
(* selection and the circular distance of Location.                        *)
(*                                                                         *)
(* A Location is an f64 in [0,1].  The model keeps the values k/Scale for  *)
(* k in 0..Scale, as the integer k; Scale is even, so that 0.5 is the      *)
(* value Half.  On these values subtraction, abs and comparison are exact. *)
(***************************************************************************)
EXTENDS Integers, Sequences, FiniteSets, TLC

\* ---------------------------------------------------------------- bounds
Half == 15
Scale == 2 * Half
MaxWrites == 2
Margin == 3

\* ------------------------------------------------------ program constants
MIN_CONNECTIONS == 10
MAX_CONNECTIONS == 20
RAND_WALK_ABOVE_HTL == 7
MAX_HOPS_TO_LIVE == 10

Threads == {"t1", "t2"}
Peers == {"p1", "p2"}
NoThread == "none"

\* Every value a Location can hold: TryFrom<f64> accepts exactly [0.0, 1.0].
Locations == 0 .. Scale

\* --------------------------------------------------------------- Location
Abs(x) == IF x < 0 THEN 0 - x ELSE x

\* A distance that forgets the shorter way round the ring.
distance_NoWrap(a, b) == Abs(a - b)

\* Location::distance: d = |a - b|; d if d < 0.5, else 1.0 - d.
distance(a, b) ==
    LET d == Abs(a - b)
    IN  IF 2 * d < Scale THEN d ELSE Scale - d

\* ------------------------------------------------------- connection table
\* BTreeMap<Location, PeerKeyLocation>: a function from its keys to the peers.
EmptyMap == [l \in {} |-> "p1"]

len(cbl) == Cardinality(DOMAIN cbl)

contains_key(cbl, l) == l \in DOMAIN cbl

\* BTreeMap::insert: a new entry, or the value of an existing key replaced.
MapInsert(cbl, k, p) == [l \in (DOMAIN cbl) \cup {k} |-> IF l = k THEN p ELSE cbl[l]]

\* BTreeMap::remove.
MapRemove(cbl, k) == [l \in (DOMAIN cbl) \ {k} |-> cbl[l]]

\* BTreeMap::iter: the keys in ascending order of Location.
RECURSIVE Ascending(_)
Ascending(S) ==
    IF S = {} THEN <<>>
    ELSE LET least == CHOOSE x \in S : \A y \in S : x <= y
         IN  <<least>> \o Ascending(S \ {least})

\* Vec::sort_by_key(|(k, _)| *k): a stable sort on the distance.
\* e goes behind the elements of the sorted s whose key is not greater.
InsertByKey(s, e) ==
    LET k == Cardinality({i \in 1 .. Len(s) : s[i][1] <= e[1]})
    IN  SubSeq(s, 1, k) \o <<e>> \o SubSeq(s, k + 1, Len(s))

RECURSIVE SortPrefix(_, _)
SortPrefix(v, n) ==
    IF n = 0 THEN <<>> ELSE InsertByKey(SortPrefix(v, n - 1), v[n])

SortByKey(v) == SortPrefix(v, Len(v))

\* The pairs delivered in order of distance.
ConnectionsByDistance_Sorted(cbl, to) ==
    LET ks == Ascending(DOMAIN cbl)
    IN  SortByKey([i \in 1 .. Len(ks) |-> <<distance(ks[i], to), cbl[ks[i]]>>])

\* The body of connections_by_distance under its read guard:
\* iter().map(|(key, peer)| (key.distance(to), *peer)).collect().
ConnectionsByDistance(cbl, to) ==
    LET ks == Ascending(DOMAIN cbl)
    IN  [i \in 1 .. Len(ks) |-> <<distance(ks[i], to), cbl[ks[i]]>>]

\* The index of the lower median.
MedianIndex_Lower(n) == IF n = 0 THEN 0 ELSE (n - 1) \div 2

\* let idx = self.connections_by_location.read().len() / 2;
MedianIndex(n) == n \div 2

\* conn_by_dist[idx] panics unless idx < conn_by_dist.len().
InBounds(v, i) == i < Len(v)

\* should_accept without its test for a Location that already keys the table.
AdmissionBranch_NoDuplicateTest(cbl, my_loc, loc) ==
    IF loc = my_loc THEN "false"
    ELSE IF len(cbl) < MIN_CONNECTIONS THEN "true"
    ELSE IF len(cbl) >= MAX_CONNECTIONS THEN "false"
    ELSE "median"

\* should_accept with the capacity test off by one (> for >=).
AdmissionBranch_CapOffByOne(cbl, my_loc, loc) ==
    IF loc = my_loc \/ contains_key(cbl, loc) THEN "false"
    ELSE IF len(cbl) < MIN_CONNECTIONS THEN "true"
    ELSE IF len(cbl) > MAX_CONNECTIONS THEN "false"
    ELSE "median"

\* should_accept without its bootstrap branch: every admission is median-gated.
AdmissionBranch_NoBootstrap(cbl, my_loc, loc) ==
    IF loc = my_loc \/ contains_key(cbl, loc) THEN "false"
    ELSE IF len(cbl) >= MAX_CONNECTIONS THEN "false"
    ELSE "median"

\* The decision of should_accept that needs no median: the value it returns
\* ("true", "false"), or "median" when the last branch is taken.
AdmissionBranch(cbl, my_loc, loc) ==
    IF loc = my_loc \/ contains_key(cbl, loc) THEN "false"
    ELSE IF len(cbl) < MIN_CONNECTIONS THEN "true"
    ELSE IF len(cbl) >= MAX_CONNECTIONS THEN "false"
    ELSE "median"

\* The comparison turned round: the candidates farther than the median pass.
CloserThan_Reversed(d, median) == d > median

\* The comparison with the median made non-strict.
CloserThan_OrEqual(d, median) == d <= median

\* my_location.distance(location) < self.median_distance_to(my_location)
CloserThan(d, median) == d < median

\* median_distance_to run on one table, nothing interleaved: the distances
\* sorted, and the element at len / 2. Defined only where that index exists.
MedianDistanceTo(cbl, loc) ==
    SortByKey(ConnectionsByDistance(cbl, loc))[MedianIndex(len(cbl)) + 1][1]

\* values().find(filter_fn).copied(): the first peer, in key order, that the
\* filter accepts; filter_fn is the set of the peers it accepts.
NoPeer == "absent"

\* The search taken from the far end of the table (rfind for find).
FindFirst_Last(cbl, filter_fn) ==
    LET ks == Ascending(DOMAIN cbl)
        hits == {i \in 1 .. Len(ks) : cbl[ks[i]] \in filter_fn}
    IN  IF hits = {} THEN NoPeer
        ELSE cbl[ks[CHOOSE i \in hits : \A j \in hits : i >= j]]

FindFirst(cbl, filter_fn) ==
    LET ks == Ascending(DOMAIN cbl)
        hits == {i \in 1 .. Len(ks) : cbl[ks[i]] \in filter_fn}
    IN  IF hits = {} THEN NoPeer
        ELSE cbl[ks[CHOOSE i \in hits : \A j \in hits : i <= j]]

\* ------------------------------------------------------------------ state
VARIABLES
    connections_by_location,   \* Ring.connections_by_location, the map inside the RwLock
    rnd_if_htl_above,          \* Ring.rnd_if_htl_above
    max_hops_to_live,          \* Ring.max_hops_to_live
    readers,                   \* RwLock: the read guards each thread holds
    writer,                    \* RwLock: the thread that has set WRITER_BIT, or NoThread
    pc,                        \* the position of each thread
    frame,                     \* the arguments and locals of each thread's call
    writes                     \* the writes the connection manager has made

vars == <<connections_by_location, rnd_if_htl_above, max_hops_to_live,
          readers, writer, pc, frame, writes>>

ring == <<rnd_if_htl_above, max_hops_to_live>>

IdleFrame ==
    [my_location |-> 0, location |-> 0, to |-> 0, filter_fn |-> {},
     nested |-> FALSE, cbl_len |-> 0, len_at_call |-> 0, conn_by_dist |-> <<>>, idx |-> 0,
     ret |-> "none", ret_bool |-> FALSE, ret_dist |-> 0, value |-> 0, ret_loc |-> 0, ret_vec |-> <<>>,
     ret_peer |-> NoPeer, wr_op |-> "none", wr_peer |-> "p1"]

\* ---------------------------------------------------------- initial state
\* n keys from s on, step apart, around the ring of values.
Run(s, n, step) == {(s + i * step) % (Scale + 1) : i \in 0 .. n - 1}

PeerAt(l) == IF l % 2 = 0 THEN "p1" ELSE "p2"

TableOf(S) == [l \in S |-> PeerAt(l)]

Sizes ==
    {0, 1, 3, 4, MIN_CONNECTIONS - 1, MIN_CONNECTIONS, MIN_CONNECTIONS + 1,
     MAX_CONNECTIONS - 1, MAX_CONNECTIONS}

Tables(ns, starts, steps) ==
    {TableOf(Run(s, n, step)) : s \in starts, n \in ns, step \in steps}

\* Ring::new() leaves the table empty and the thresholds at their defaults; the
\* connection manager then fills the table, so the calls start on a table it
\* has built.
InitWith(tables) ==
    /\ connections_by_location \in tables
    /\ rnd_if_htl_above = RAND_WALK_ABOVE_HTL
    /\ max_hops_to_live = MAX_HOPS_TO_LIVE
    /\ readers = [t \in Threads |-> 0]
    /\ writer = NoThread
    /\ pc = [t \in Threads |-> "idle"]
    /\ frame = [t \in Threads |-> IdleFrame]
    /\ writes = 0

\* ----------------------------------------------------------------- RwLock
\* parking_lot's RwLock::read(): a reader is admitted unless WRITER_BIT is
\* set, be the writer holding the lock or still waiting for the readers to
\* leave; a read guard the same thread already holds makes no difference.
CanRead == writer = NoThread

\* RwLock::write(), first half: set WRITER_BIT once no other writer has it.
CanSetWriterBit == writer = NoThread

\* RwLock::write(), second half: wait until every read guard is dropped.
NoReaders == \A t \in Threads : readers[t] = 0

\* ------------------------------------------------------------ should_accept
CallShouldAccept(t, mys, locs) ==
    /\ pc[t] = "idle"
    /\ \E my_loc \in mys, loc \in locs :
        frame' = [frame EXCEPT ![t] =
                    [IdleFrame EXCEPT !.my_location = my_loc, !.location = loc]]
    /\ pc' = [pc EXCEPT ![t] = "sa_read"]
    /\ UNCHANGED <<connections_by_location, ring, readers, writer, writes>>

\* should_accept letting go of its read guard as soon as it has taken it.
SaRead_GuardDropped(t) ==
    /\ pc[t] = "sa_read"
    /\ CanRead
    /\ LET cbl == connections_by_location
           b == AdmissionBranch(cbl, frame[t].my_location, frame[t].location)
       IN  IF b = "median"
           THEN /\ frame' = [frame EXCEPT ![t].cbl_len = len(cbl),
                                          ![t].nested = TRUE,
                                          ![t].to = frame[t].my_location]
                /\ pc' = [pc EXCEPT ![t] = "md_cbd"]
           ELSE /\ frame' = [frame EXCEPT ![t].cbl_len = len(cbl),
                                          ![t].ret = "bool",
                                          ![t].ret_bool = (b = "true")]
                /\ pc' = [pc EXCEPT ![t] = "sa_ret"]
    /\ UNCHANGED <<connections_by_location, ring, readers, writer, writes>>

\* let cbl = &*self.connections_by_location.read(); and the branches that
\* return at once. The guard lives until should_accept returns.
SaRead(t) ==
    /\ pc[t] = "sa_read"
    /\ CanRead
    /\ readers' = [readers EXCEPT ![t] = @ + 1]
    /\ LET cbl == connections_by_location
           b == AdmissionBranch(cbl, frame[t].my_location, frame[t].location)
       IN  IF b = "median"
           THEN /\ frame' = [frame EXCEPT ![t].cbl_len = len(cbl),
                                          ![t].nested = TRUE,
                                          ![t].to = frame[t].my_location]
                /\ pc' = [pc EXCEPT ![t] = "md_cbd"]
           ELSE /\ frame' = [frame EXCEPT ![t].cbl_len = len(cbl),
                                          ![t].ret = "bool",
                                          ![t].ret_bool = (b = "true")]
                /\ pc' = [pc EXCEPT ![t] = "sa_ret"]
    /\ UNCHANGED <<connections_by_location, ring, writer, writes>>

\* should_accept returns: the read guard is dropped; the caller now holds the
\* decision.
SaReturn(t) ==
    /\ pc[t] = "sa_ret"
    /\ readers' = [readers EXCEPT ![t] = @ - 1]
    /\ IF frame[t].ret_bool
       THEN /\ pc' = [pc EXCEPT ![t] = "accepted"]
            /\ frame' = [frame EXCEPT ![t] =
                    [IdleFrame EXCEPT !.my_location = frame[t].my_location,
                                      !.location = frame[t].location,
                                      !.cbl_len = frame[t].cbl_len]]
       ELSE /\ pc' = [pc EXCEPT ![t] = "idle"]
            /\ frame' = [frame EXCEPT ![t] = IdleFrame]
    /\ UNCHANGED <<connections_by_location, ring, writer, writes>>

\* ------------------------------------------------------- median_distance_to
\* len_at_call records the size of the table at the moment of the call; the
\* code does not read it.
CallMedian(t, refs) ==
    /\ pc[t] = "idle"
    /\ \E ref \in refs :
        frame' = [frame EXCEPT ![t] =
                    [IdleFrame EXCEPT !.to = ref,
                                      !.len_at_call = len(connections_by_location)]]
    /\ pc' = [pc EXCEPT ![t] = "md_cbd"]
    /\ UNCHANGED <<connections_by_location, ring, readers, writer, writes>>

\* let mut conn_by_dist = self.connections_by_distance(location);
\* conn_by_dist.sort_by_key(|(k, _)| *k);
\* connections_by_distance takes its own read guard and drops it on return.
MdCbd(t) ==
    /\ pc[t] = "md_cbd"
    /\ CanRead
    /\ frame' = [frame EXCEPT ![t].conn_by_dist =
                    SortByKey(ConnectionsByDistance(connections_by_location, frame[t].to))]
    /\ pc' = [pc EXCEPT ![t] = "md_len"]
    /\ UNCHANGED <<connections_by_location, ring, readers, writer, writes>>

\* let idx = self.connections_by_location.read().len() / 2;
MdLen(t) ==
    /\ pc[t] = "md_len"
    /\ CanRead
    /\ frame' = [frame EXCEPT ![t].idx = MedianIndex(len(connections_by_location))]
    /\ pc' = [pc EXCEPT ![t] = "md_index"]
    /\ UNCHANGED <<connections_by_location, ring, readers, writer, writes>>

\* conn_by_dist[idx].0, and in should_accept the comparison with it. An index
\* out of range panics: the thread unwinds, dropping the guards it holds.
MdIndex(t) ==
    /\ pc[t] = "md_index"
    /\ LET f == frame[t]
       IN  IF InBounds(f.conn_by_dist, f.idx)
           THEN LET m == f.conn_by_dist[f.idx + 1][1]
                IN  IF f.nested
                    THEN /\ frame' = [frame EXCEPT
                              ![t].ret = "bool",
                              ![t].ret_dist = m,
                              ![t].ret_bool =
                                  CloserThan(distance(f.my_location, f.location), m)]
                         /\ pc' = [pc EXCEPT ![t] = "sa_ret"]
                    ELSE /\ frame' = [frame EXCEPT ![t].ret = "dist",
                                                   ![t].ret_dist = m]
                         /\ pc' = [pc EXCEPT ![t] = "md_ret"]
                         
           ELSE /\ frame' = [frame EXCEPT ![t].ret = "panic"]
                /\ pc' = [pc EXCEPT ![t] = "panicked"]
    /\ readers' = [readers EXCEPT ![t] =
                     IF InBounds(frame[t].conn_by_dist, frame[t].idx) THEN @ ELSE 0]
    /\ UNCHANGED <<connections_by_location, ring, writer, writes>>

MdReturn(t) ==
    /\ pc[t] = "md_ret"
    /\ pc' = [pc EXCEPT ![t] = "idle"]
    /\ frame' = [frame EXCEPT ![t] = IdleFrame]
    /\ UNCHANGED <<connections_by_location, ring, readers, writer, writes>>

\* -------------------------------------------------- connections_by_distance
CallConnectionsByDistance(t, refs) ==
    /\ pc[t] = "idle"
    /\ \E ref \in refs :
        frame' = [frame EXCEPT ![t] = [IdleFrame EXCEPT !.to = ref]]
    /\ pc' = [pc EXCEPT ![t] = "cbd_read"]
    /\ UNCHANGED <<connections_by_location, ring, readers, writer, writes>>

CbdRead(t) ==
    /\ pc[t] = "cbd_read"
    /\ CanRead
    /\ frame' = [frame EXCEPT
          ![t].ret = "vec",
          ![t].ret_vec = ConnectionsByDistance(connections_by_location, frame[t].to)]
    /\ pc' = [pc EXCEPT ![t] = "cbd_ret"]
    /\ UNCHANGED <<connections_by_location, ring, readers, writer, writes>>

CbdReturn(t) ==
    /\ pc[t] = "cbd_ret"
    /\ pc' = [pc EXCEPT ![t] = "idle"]
    /\ frame' = [frame EXCEPT ![t] = IdleFrame]
    /\ UNCHANGED <<connections_by_location, ring, readers, writer, writes>>

\* -------------------------------------------------------------- random_peer
CallRandomPeer(t, filters) ==
    /\ pc[t] = "idle"
    /\ \E f \in filters :
        frame' = [frame EXCEPT ![t] = [IdleFrame EXCEPT !.filter_fn = f]]
    /\ pc' = [pc EXCEPT ![t] = "rp_read"]
    /\ UNCHANGED <<connections_by_location, ring, readers, writer, writes>>

\* A lookup that takes the peer it finds out of the table.
RpRead_Take(t) ==
    /\ pc[t] = "rp_read"
    /\ CanRead
    /\ LET hits == {k \in DOMAIN connections_by_location :
                        connections_by_location[k] \in frame[t].filter_fn}
       IN  connections_by_location' =
               [k \in (DOMAIN connections_by_location) \ hits |->
                    connections_by_location[k]]
    /\ frame' = [frame EXCEPT
          ![t].ret = "peer",
          ![t].ret_peer = FindFirst(connections_by_location, frame[t].filter_fn)]
    /\ pc' = [pc EXCEPT ![t] = "rp_ret"]
    /\ UNCHANGED <<ring, readers, writer, writes>>

RpRead(t) ==
    /\ pc[t] = "rp_read"
    /\ CanRead
    /\ frame' = [frame EXCEPT
          ![t].ret = "peer",
          ![t].ret_peer = FindFirst(connections_by_location, frame[t].filter_fn)]
    /\ pc' = [pc EXCEPT ![t] = "rp_ret"]
    /\ UNCHANGED <<connections_by_location, ring, readers, writer, writes>>

RpReturn(t) ==
    /\ pc[t] = "rp_ret"
    /\ pc' = [pc EXCEPT ![t] = "idle"]
    /\ frame' = [frame EXCEPT ![t] = IdleFrame]
    /\ UNCHANGED <<connections_by_location, ring, readers, writer, writes>>

\* ------------------------------------------------------- Location::distance
CallDistance(t, as, bs) ==
    /\ pc[t] = "idle"
    /\ \E a \in as, b \in bs :
        frame' = [frame EXCEPT ![t] =
                    [IdleFrame EXCEPT !.my_location = a, !.location = b,
                                      !.ret = "dist", !.ret_dist = distance(a, b)]]
    /\ pc' = [pc EXCEPT ![t] = "dist_ret"]
    /\ UNCHANGED <<connections_by_location, ring, readers, writer, writes>>

DistReturn(t) ==
    /\ pc[t] = "dist_ret"
    /\ pc' = [pc EXCEPT ![t] = "idle"]
    /\ frame' = [frame EXCEPT ![t] = IdleFrame]
    /\ UNCHANGED <<connections_by_location, ring, readers, writer, writes>>

\* ----------------------------------------------------- Location construction
\* The f64 values handed to a constructor: the Locations, the values up to
\* Margin steps below 0.0 and above 1.0, and NaN.
NaN == Scale + Margin + 1

F64Values == ((0 - Margin) .. (Scale + Margin)) \cup {NaN}

IsNaN(v) == v = NaN

\* (0.0..=1.0).contains(&value): 0.0 <= value && value <= 1.0, and every
\* comparison with NaN is false.
RangeContains(v) == ~IsNaN(v) /\ 0 <= v /\ v <= Scale

\* Location::distance on any two f64 payloads: NaN propagates through the
\* subtraction, abs and 1.0 - d; d < 0.5 is false on NaN.
distance_f64(a, b) == IF IsNaN(a) \/ IsNaN(b) THEN NaN ELSE distance(a, b)

\* Location::random(): gen_range(0.0..=1.0).
Random(t) ==
    /\ pc[t] = "idle"
    /\ \E l \in Locations :
        frame' = [frame EXCEPT ![t] =
                    [IdleFrame EXCEPT !.ret = "ok", !.ret_loc = l]]
    /\ pc' = [pc EXCEPT ![t] = "rand_ret"]
    /\ UNCHANGED <<connections_by_location, ring, readers, writer, writes>>

\* <Location as TryFrom<f64>>::try_from(value).
TryFrom(t, values) ==
    /\ pc[t] = "idle"
    /\ \E v \in values :
        frame' = [frame EXCEPT ![t] =
                    IF ~RangeContains(v)
                    THEN [IdleFrame EXCEPT !.value = v, !.ret = "err"]
                    ELSE [IdleFrame EXCEPT !.value = v, !.ret = "ok",
                                           !.ret_loc = v]]
    /\ pc' = [pc EXCEPT ![t] = "tf_ret"]
    /\ UNCHANGED <<connections_by_location, ring, readers, writer, writes>>

\* The derived serde::Deserialize of the newtype Location(f64): the payload
\* is read as an f64 and wrapped as it is.
Deserialize(t, values) ==
    /\ pc[t] = "idle"
    /\ \E v \in values :
        frame' = [frame EXCEPT ![t] =
                    [IdleFrame EXCEPT !.value = v, !.ret = "ok", !.ret_loc = v]]
    /\ pc' = [pc EXCEPT ![t] = "de_ret"]
    /\ UNCHANGED <<connections_by_location, ring, readers, writer, writes>>

\* The caller takes the distance from the Location it has just constructed
\* to another Location.
DistanceOfConstructed(t, others) ==
    /\ pc[t] \in {"rand_ret", "tf_ret", "de_ret"}
    /\ frame[t].ret = "ok"
    /\ \E b \in others :
        frame' = [frame EXCEPT
            ![t].my_location = frame[t].ret_loc,
            ![t].location = b,
            ![t].ret = "dist",
            ![t].ret_dist = distance_f64(frame[t].ret_loc, b)]
    /\ pc' = [pc EXCEPT ![t] = "cdist_ret"]
    /\ UNCHANGED <<connections_by_location, ring, readers, writer, writes>>

ConstructReturn(t) ==
    /\ pc[t] \in {"rand_ret", "tf_ret", "de_ret", "cdist_ret"}
    /\ pc' = [pc EXCEPT ![t] = "idle"]
    /\ frame' = [frame EXCEPT ![t] = IdleFrame]
    /\ UNCHANGED <<connections_by_location, ring, readers, writer, writes>>

\* ------------------------------------------------------------ Ring setters
\* with_rnd_walk_above(&mut self, ..): the exclusive borrow leaves no call of
\* the ring under way.
WithRndWalkAbove(values) ==
    /\ \A t \in Threads : pc[t] = "idle"
    /\ \E v \in values : rnd_if_htl_above' = v
    /\ UNCHANGED <<connections_by_location, max_hops_to_live, readers, writer,
                   pc, frame, writes>>

\* with_max_hops(&mut self, ..).
WithMaxHops(values) ==
    /\ \A t \in Threads : pc[t] = "idle"
    /\ \E v \in values : max_hops_to_live' = v
    /\ UNCHANGED <<connections_by_location, rnd_if_htl_above, readers, writer,
                   pc, frame, writes>>

\* ------------------------------------------------------- connection manager
\* The caller of should_accept acts on an acceptance: it inserts the candidate's
\* peer descriptor under the write lock, a critical section of its own.
JoinInsert(t) ==
    /\ pc[t] = "accepted"
    /\ writes < MaxWrites
    /\ frame' = [frame EXCEPT ![t].wr_op = "insert",
                                ![t].wr_peer = PeerAt(frame[t].location)]
    /\ pc' = [pc EXCEPT ![t] = "w_lock"]
    /\ UNCHANGED <<connections_by_location, ring, readers, writer, writes>>

\* ... or gives the connection up.
JoinAbandon(t) ==
    /\ pc[t] = "accepted"
    /\ pc' = [pc EXCEPT ![t] = "idle"]
    /\ frame' = [frame EXCEPT ![t] = IdleFrame]
    /\ UNCHANGED <<connections_by_location, ring, readers, writer, writes>>

\* A peer disconnects: its entry is to be removed.
Disconnect(t, keys) ==
    /\ pc[t] = "idle"
    /\ writes < MaxWrites
    /\ \E k \in keys \cap DOMAIN connections_by_location :
        frame' = [frame EXCEPT ![t] =
                    [IdleFrame EXCEPT !.location = k, !.wr_op = "remove"]]
    /\ pc' = [pc EXCEPT ![t] = "w_lock"]
    /\ UNCHANGED <<connections_by_location, ring, readers, writer, writes>>

\* connections_by_location.write(): WRITER_BIT is set ...
WLock(t) ==
    /\ pc[t] = "w_lock"
    /\ CanSetWriterBit
    /\ writer' = t
    /\ pc' = [pc EXCEPT ![t] = "w_wait"]
    /\ UNCHANGED <<connections_by_location, ring, readers, frame, writes>>

\* ... and once the readers have left, the map is changed and the lock released.
WWrite(t) ==
    /\ pc[t] = "w_wait"
    /\ NoReaders
    /\ connections_by_location' =
          IF frame[t].wr_op = "insert"
          THEN MapInsert(connections_by_location, frame[t].location, frame[t].wr_peer)
          ELSE MapRemove(connections_by_location, frame[t].location)
    /\ writer' = NoThread
    /\ writes' = writes + 1
    /\ pc' = [pc EXCEPT ![t] = "w_done"]
    /\ UNCHANGED <<ring, readers, frame>>

\* The connection manager is done with this join or disconnection.
WReturn(t) ==
    /\ pc[t] = "w_done"
    /\ pc' = [pc EXCEPT ![t] = "idle"]
    /\ frame' = [frame EXCEPT ![t] = IdleFrame]
    /\ UNCHANGED <<connections_by_location, ring, readers, writer, writes>>

\* --------------------------------------------------------- specifications
\* Spec: the threads of the node run concurrently. Each of them handles join
\* attempts (should_accept, then the insertion) and disconnections; the
\* threads of Readers also query the ring for the forwarding component.
Owns == {0, Half}
Candidates == {1, 2, Scale}
Leaving == {3}
Filters == {{"p1"}, {}}
Readers == {"t1"}
ConcSizes == {0, 1, MIN_CONNECTIONS - 1, MAX_CONNECTIONS - 1, MAX_CONNECTIONS}
ConcTables == Tables(ConcSizes, {3}, {1})

Init == InitWith(ConcTables)

Next ==
    \/ \E t \in Readers :
        \/ CallMedian(t, Owns)
        \/ MdReturn(t)
        \/ CallConnectionsByDistance(t, Owns)
        \/ CbdRead(t)
        \/ CbdReturn(t)
        \/ CallRandomPeer(t, Filters)
        \/ RpRead(t)
        \/ RpReturn(t)
    \/ \E t \in Threads :
        \/ CallShouldAccept(t, Owns, Candidates)
        \/ SaRead(t)
        \/ SaReturn(t)
        \/ MdCbd(t)
        \/ MdLen(t)
        \/ MdIndex(t)
        \/ JoinInsert(t)
        \/ JoinAbandon(t)
        \/ Disconnect(t, Leaving)
        \/ WLock(t)
        \/ WWrite(t)
        \/ WReturn(t)

Spec == Init /\ [][Next]_vars

\* SpecSeq: one thread calls should_accept and median_distance_to with every
\* pair of Locations on a table nobody changes, overshoot tables included.
SeqTables == Tables(Sizes \cup {MAX_CONNECTIONS + 1}, {0, 3}, {1, 3, 7})

InitSeq == InitWith(SeqTables)

NextSeq ==
    \/ CallShouldAccept("t1", Locations, Locations)
    \/ SaRead("t1")
    \/ SaReturn("t1")
    \/ JoinAbandon("t1")
    \/ CallMedian("t1", Locations)
    \/ MdCbd("t1")
    \/ MdLen("t1")
    \/ MdIndex("t1")
    \/ MdReturn("t1")

SpecSeq == InitSeq /\ [][NextSeq]_vars

\* SpecLoc: one thread computes the distance of every pair of Locations.
InitLoc == InitWith({EmptyMap})

NextLoc ==
    \/ CallDistance("t1", Locations, Locations)
    \/ DistReturn("t1")

SpecLoc == InitLoc /\ [][NextLoc]_vars

\* SpecCons: one thread constructs Locations from f64 values by every
\* constructor of the type and takes distances from them.
Anchors == {0, Half, Scale}

InitCons == InitWith({EmptyMap})

NextCons ==
    \/ Random("t1")
    \/ TryFrom("t1", F64Values)
    \/ Deserialize("t1", F64Values)
    \/ DistanceOfConstructed("t1", Anchors)
    \/ ConstructReturn("t1")

SpecCons == InitCons /\ [][NextCons]_vars

\* SpecSerial: admission is serialised on a single path. Thread t1 alone
\* handles join attempts for the node at Own: it calls should_accept and
\* inserts the candidate only on a true it has just been given; thread t2
\* handles the disconnections, at any moment. The tables at the start are tables
\* this regime builds from the empty one: below MIN_CONNECTIONS every new key
\* is accepted, and above it the keys can be taken in order of decreasing
\* distance to Own, each one closer than the median of those before it.
Own == 0

SerialSizes ==
    {0, 1, MIN_CONNECTIONS - 1, MIN_CONNECTIONS, MIN_CONNECTIONS + 1,
     MAX_CONNECTIONS - 2, MAX_CONNECTIONS - 1, MAX_CONNECTIONS}

SerialTables ==
    {T \in Tables(SerialSizes, {3}, {1, 2}) : ~contains_key(T, Own)}

\* The candidates: own itself, keys the tables hold, and new keys on both sides
\* of own, near and far.
SerialCandidates ==
    {Own, 1, 2, 3, 4, 5, 6, Half - 1, Half, Half + 1,
     Scale - 4, Scale - 3, Scale - 2, Scale - 1, Scale}

SerialLeaving == {3}

InitSerial == InitWith(SerialTables)

NextSerial ==
    \/ CallShouldAccept("t1", {Own}, SerialCandidates)
    \/ SaRead("t1")
    \/ MdCbd("t1")
    \/ MdLen("t1")
    \/ MdIndex("t1")
    \/ SaReturn("t1")
    \/ JoinInsert("t1")
    \/ JoinAbandon("t1")
    \/ Disconnect("t2", SerialLeaving)
    \/ \E t \in Threads :
        \/ WLock(t)
        \/ WWrite(t)
        \/ WReturn(t)

SpecSerial == InitSerial /\ [][NextSerial]_vars

\* SpecQuery: one thread owns the ring: it sets the thresholds, queries the
\* ring with every filter and every reference, and joins and drops peers.
Thresholds == {RAND_WALK_ABOVE_HTL, MAX_HOPS_TO_LIVE}

QueryTables == Tables(Sizes, {3}, {1, 3})

InitQuery == InitWith(QueryTables)

NextQuery ==
    \/ WithRndWalkAbove(Thresholds)
    \/ WithMaxHops(Thresholds)
    \/ CallShouldAccept("t1", Owns, Candidates)
    \/ SaRead("t1")
    \/ SaReturn("t1")
    \/ CallMedian("t1", Owns)
    \/ MdCbd("t1")
    \/ MdLen("t1")
    \/ MdIndex("t1")
    \/ MdReturn("t1")
    \/ CallConnectionsByDistance("t1", Locations)
    \/ CbdRead("t1")
    \/ CbdReturn("t1")
    \/ CallRandomPeer("t1", SUBSET Peers)
    \/ RpRead("t1")
    \/ RpReturn("t1")
    \/ JoinInsert("t1")
    \/ JoinAbandon("t1")
    \/ Disconnect("t1", Leaving)
    \/ WLock("t1")
    \/ WWrite("t1")
    \/ WReturn("t1")

SpecQuery == InitQuery /\ [][NextQuery]_vars

\* ------------------------------------------------------------------ claims
\* Thread t is inside should_accept, past the point where it took its read
\* guard: the table cannot change until it returns.
InShouldAccept(t) ==
    \/ pc[t] = "sa_ret"
    \/ frame[t].nested /\ pc[t] \in {"md_cbd", "md_len", "md_index", "panicked"}

Fresh(t) ==
    /\ frame[t].location # frame[t].my_location
    /\ ~contains_key(connections_by_location, frame[t].location)

\* C1: should_accept returns false for candidate == own and for a candidate
\* that already keys the table, whatever the connection count.
C1_RejectSelfAndDuplicate ==
    \A t \in Threads :
        (/\ InShouldAccept(t)
         /\ \/ frame[t].location = frame[t].my_location
            \/ contains_key(connections_by_location, frame[t].location))
        => (pc[t] = "sa_ret" /\ frame[t].ret = "bool" /\ ~frame[t].ret_bool)

\* A duplicate Location is rejected on a table still in its bootstrap phase.
C1_Witness ==
    \E t \in Threads :
        /\ pc[t] = "sa_ret"
        /\ frame[t].location # frame[t].my_location
        /\ contains_key(connections_by_location, frame[t].location)
        /\ len(connections_by_location) < MIN_CONNECTIONS
        /\ ~frame[t].ret_bool

\* C2: with MAX_CONNECTIONS entries or more, overshoot included, should_accept
\* returns false for every candidate and every own Location.
C2_RejectAtCapacity ==
    \A t \in Threads :
        (InShouldAccept(t) /\ len(connections_by_location) >= MAX_CONNECTIONS)
        => (pc[t] = "sa_ret" /\ frame[t].ret = "bool" /\ ~frame[t].ret_bool)

\* A new candidate, next to own, is rejected by a table of exactly
\* MAX_CONNECTIONS entries.
C2_Witness ==
    \E t \in Threads :
        /\ pc[t] = "sa_ret"
        /\ Fresh(t)
        /\ len(connections_by_location) = MAX_CONNECTIONS
        /\ distance(frame[t].my_location, frame[t].location) = 1
        /\ ~frame[t].ret_bool

\* C3: with fewer than MIN_CONNECTIONS entries should_accept returns true for
\* every candidate that is neither own nor a key of the table, whatever its
\* distance, and does so without computing the median.
C3_AcceptWhileBootstrapping ==
    \A t \in Threads :
        (/\ InShouldAccept(t)
         /\ len(connections_by_location) < MIN_CONNECTIONS
         /\ Fresh(t))
        => /\ pc[t] = "sa_ret"
           /\ frame[t].ret = "bool"
           /\ frame[t].ret_bool
           /\ ~frame[t].nested

\* The antipode of own is accepted by an empty table.
C3_Witness ==
    \E t \in Threads :
        /\ pc[t] = "sa_ret"
        /\ connections_by_location = EmptyMap
        /\ distance(frame[t].my_location, frame[t].location) = Half
        /\ frame[t].ret_bool

\* C4: with MIN_CONNECTIONS <= n < MAX_CONNECTIONS and a candidate that is
\* neither own nor a key, should_accept returns true exactly when
\* distance(own, candidate) < median_distance_to(own) on the same table; a
\* candidate at the median distance is rejected.
C4_MedianGate ==
    \A t \in Threads :
        (/\ InShouldAccept(t)
         /\ len(connections_by_location) >= MIN_CONNECTIONS
         /\ len(connections_by_location) < MAX_CONNECTIONS
         /\ Fresh(t))
        => /\ pc[t] # "panicked"
           /\ pc[t] = "sa_ret" =>
                /\ frame[t].ret = "bool"
                /\ frame[t].ret_bool <=>
                     (distance(frame[t].my_location, frame[t].location)
                        < MedianDistanceTo(connections_by_location,
                                           frame[t].my_location))

\* A candidate exactly at the median distance is rejected.
C4_Witness ==
    \E t \in Threads :
        /\ pc[t] = "sa_ret"
        /\ frame[t].nested
        /\ Fresh(t)
        /\ distance(frame[t].my_location, frame[t].location)
             = MedianDistanceTo(connections_by_location, frame[t].my_location)
        /\ ~frame[t].ret_bool

\* A table of four neighbours, and the tenth of the ring they are spaced by.
Tenth == Scale \div 10

FourNeighbours == {Tenth, 2 * Tenth, 3 * Tenth, 4 * Tenth}

\* r is the element at index k (from 0) of the ascending distances from ref to
\* the keys of cbl.
HasRank(cbl, ref, r, k) ==
    /\ Cardinality({l \in DOMAIN cbl : distance(l, ref) < r}) <= k
    /\ Cardinality({l \in DOMAIN cbl : distance(l, ref) <= r}) > k
    /\ \E l \in DOMAIN cbl : distance(l, ref) = r

\* C5 as stated: median_distance_to returns the median of the distances, the
\* lower median when n is even: 0.2 for [0.1, 0.2, 0.3, 0.4].
C5_LowerMedian ==
    \A t \in Threads :
        pc[t] = "md_ret" =>
            /\ HasRank(connections_by_location, frame[t].to, frame[t].ret_dist,
                       (len(connections_by_location) - 1) \div 2)
            /\ (frame[t].to = 0 /\ DOMAIN connections_by_location = FourNeighbours)
                   => frame[t].ret_dist = 2 * Tenth

\* C5, amended: on a non-empty table of n connections that no writer changes
\* during the call, median_distance_to returns the element at index n / 2
\* (from 0) of the ascending distances: the median when n is odd, the upper
\* median when n is even (0.3 for [0.1, 0.2, 0.3, 0.4]); it does not panic.
C5_UpperMedian ==
    \A t \in Threads :
        /\ pc[t] = "md_ret" =>
              /\ frame[t].ret = "dist"
              /\ HasRank(connections_by_location, frame[t].to, frame[t].ret_dist,
                         len(connections_by_location) \div 2)
        /\ pc[t] = "panicked" => len(connections_by_location) = 0

\* Distances [0.1, 0.2, 0.3, 0.4]: the call returns 0.3.
C5_Witness ==
    \E t \in Threads :
        /\ pc[t] = "md_ret"
        /\ frame[t].to = 0
        /\ DOMAIN connections_by_location = FourNeighbours
        /\ frame[t].ret_dist = 3 * Tenth

\* C6: median_distance_to on a table with no entry returns an EmptyRing
\* failure to its caller; it never indexes the empty list and never aborts.
C6_EmptyRingFailure ==
    \A t \in Threads :
        (pc[t] \in {"md_ret", "panicked"} /\ frame[t].conn_by_dist = <<>>)
        => (pc[t] # "panicked" /\ frame[t].ret = "EmptyRing")

Min(x, y) == IF x <= y THEN x ELSE y

\* C7: distance(a, b) = min(|a-b|, 1-|a-b|) for all Locations a and b; it is
\* symmetric, distance(a, a) = 0, and the result lies in [0, 0.5].
C7_ShorterArc ==
    \A t \in Threads :
        pc[t] = "dist_ret" =>
            LET a == frame[t].my_location
                b == frame[t].location
                r == frame[t].ret_dist
            IN  /\ r = Min(Abs(a - b), Scale - Abs(a - b))
                /\ r = distance(b, a)
                /\ a = b => r = 0
                /\ 0 <= r /\ r <= Half

\* distance(0.1, 0.6) = 0.5: the antipodal case.
C7_Witness ==
    \E t \in Threads :
        /\ pc[t] = "dist_ret"
        /\ frame[t].my_location = Tenth
        /\ frame[t].location = Tenth + Half
        /\ frame[t].ret_dist = Half

\* C8 as stated: distance(a, b) is zero only when a == b.
C8_ZeroOnlyWhenEqual ==
    \A t \in Threads :
        (pc[t] = "dist_ret" /\ frame[t].ret_dist = 0)
        => frame[t].my_location = frame[t].location

\* C8, amended: distance(a, b) is zero exactly when a == b or the computed
\* |a - b| is 1.0, as it is for the endpoints 0 and 1, which compare unequal
\* and are one point of the ring.
C8_ZeroOnlyWhenSamePoint ==
    \A t \in Threads :
        pc[t] = "dist_ret" =>
            (frame[t].ret_dist = 0 <=>
                \/ frame[t].my_location = frame[t].location
                \/ Abs(frame[t].my_location - frame[t].location) = Scale)

\* distance(0.0, 1.0) = 0.
C8_Witness ==
    \E t \in Threads :
        /\ pc[t] = "dist_ret"
        /\ frame[t].my_location = 0
        /\ frame[t].location = Scale
        /\ frame[t].ret_dist = 0

\* Thread t holds an acceptance it has not yet finished acting on.
Joining(t) ==
    /\ pc[t] \in {"accepted", "w_lock", "w_wait", "w_done"}
    /\ frame[t].wr_op # "remove"

\* C9: should_accept and the insertion being two critical sections, two join
\* attempts can both be evaluated at MAX_CONNECTIONS - 1 entries, both be
\* accepted and both be inserted, which leaves more than MAX_CONNECTIONS
\* entries. Every insertion was accepted below MAX_CONNECTIONS, and the
\* overshoot is at most one entry per further concurrent join attempt.
C9_OvershootByRace ==
    /\ \A t \in Threads : Joining(t) => frame[t].cbl_len < MAX_CONNECTIONS
    /\ len(connections_by_location) <= MAX_CONNECTIONS - 1 + Cardinality(Threads)

\* Both join attempts saw MAX_CONNECTIONS - 1 entries, both have inserted, and
\* the table holds MAX_CONNECTIONS + 1.
C9_Witness ==
    /\ \A t \in Threads :
          /\ pc[t] = "w_done"
          /\ frame[t].wr_op = "insert"
          /\ frame[t].cbl_len = MAX_CONNECTIONS - 1
    /\ len(connections_by_location) = MAX_CONNECTIONS + 1

InCall(t) == pc[t] \notin {"idle", "accepted", "panicked"}

\* Thread t, inside a call, can take its next step: the lock lets it in where
\* the step takes the lock, and the other steps are local.
CanProceed(t) ==
    /\ InCall(t)
    /\ pc[t] \in {"sa_read", "md_cbd", "md_len", "cbd_read", "rp_read"} => CanRead
    /\ pc[t] = "w_lock" => CanSetWriterBit
    /\ pc[t] = "w_wait" => NoReaders

\* C10: no reachable state is a deadlock: while a call of the ring is under
\* way, some thread inside a call can take its next step.
C10_NoDeadlock ==
    (\E t \in Threads : InCall(t)) => (\E u \in Threads : CanProceed(u))

\* The keys of cbl whose peer the filter accepts.
Matching(cbl, filter_fn) == {k \in DOMAIN cbl : cbl[k] \in filter_fn}

Least(S) == CHOOSE x \in S : \A y \in S : x <= y

\* C11: random_peer returns the peer stored under the smallest Location key
\* whose peer satisfies the predicate, and absent when no stored peer does;
\* the result is a function of the table and the predicate.
C11_FirstMatchInKeyOrder ==
    \A t \in Threads :
        pc[t] = "rp_ret" =>
            LET hits == Matching(connections_by_location, frame[t].filter_fn)
            IN  /\ frame[t].ret = "peer"
                /\ hits = {} => frame[t].ret_peer = NoPeer
                /\ hits # {} =>
                      frame[t].ret_peer = connections_by_location[Least(hits)]

\* Several entries match; the peer of the first one is returned, and it is not
\* the peer of the last one.
C11_Witness ==
    \E t \in Threads :
        /\ pc[t] = "rp_ret"
        /\ LET hits == Matching(connections_by_location, frame[t].filter_fn)
           IN  /\ Cardinality(hits) > 1
               /\ frame[t].ret_peer = connections_by_location[Least(hits)]
               /\ \E k \in hits : connections_by_location[k] # frame[t].ret_peer

\* v holds one pair per entry of cbl, the distance of its key to the reference
\* and its peer, in ascending order of the keys.
OnePairPerEntry(cbl, to, v) ==
    /\ Len(v) = Cardinality(DOMAIN cbl)
    /\ \A k \in DOMAIN cbl :
          v[Cardinality({j \in DOMAIN cbl : j < k}) + 1] = <<distance(k, to), cbl[k]>>

\* C12: connections_by_distance returns one (distance, peer) pair per entry of
\* the table as it stood at one instant, distance = distance(key, reference),
\* in ascending order of the keys; the list is a copy that later insertions
\* and removals do not change.
C12_SnapshotInKeyOrder ==
    [][\A t \in Threads :
          /\ (pc[t] = "cbd_read" /\ pc'[t] = "cbd_ret") =>
                OnePairPerEntry(connections_by_location, frame[t].to,
                                frame'[t].ret_vec)
          /\ (pc[t] = "cbd_ret" /\ pc'[t] = "cbd_ret") =>
                frame'[t].ret_vec = frame[t].ret_vec]_vars

\* A returned list that is not in order of distance, and that the table has
\* moved away from since.
C12_Witness ==
    \E t \in Threads :
        /\ pc[t] = "cbd_ret"
        /\ LET v == frame[t].ret_vec
           IN  /\ \E i \in 1 .. Len(v), j \in 1 .. Len(v) : i < j /\ v[i][1] > v[j][1]
               /\ Len(v) # len(connections_by_location)

\* The positions of a thread inside one of the four queries, from the call
\* to the return of its value.
QueryPcs ==
    {"sa_read", "sa_ret", "md_cbd", "md_len", "md_index", "md_ret",
     "cbd_read", "cbd_ret", "rp_read", "rp_ret"}

\* C13: should_accept, median_distance_to, connections_by_distance and
\* random_peer are pure reads: no step of a call, from its entry to its return
\* or panic, changes the connection table or the two thresholds; the table
\* changes only in the connection manager's write step.
C13_QueriesArePureReads ==
    [][/\ \A t \in Threads :
             (pc[t] \in QueryPcs \/ pc'[t] \in QueryPcs) =>
                 /\ connections_by_location' = connections_by_location
                 /\ ring' = ring
       /\ connections_by_location' # connections_by_location =>
             \E t \in Threads : pc[t] = "w_wait" /\ pc'[t] = "w_done"]_vars

\* random_peer has found a peer in a table the connection manager has
\* written, on a ring whose random-walk threshold was set by the builder.
C13_Witness ==
    \E t \in Threads :
        /\ pc[t] = "rp_ret"
        /\ frame[t].ret_peer # NoPeer
        /\ writes > 0
        /\ rnd_if_htl_above # RAND_WALK_ABOVE_HTL

InUnitInterval(v) == ~IsNaN(v) /\ 0 <= v /\ v <= Scale

\* try_from succeeds exactly on the values of [0,1] and then holds the value
\* it was given; on every other value it returns the failure.
TryFromValidates ==
    \A t \in Threads :
        pc[t] = "tf_ret" =>
            /\ frame[t].ret \in {"ok", "err"}
            /\ frame[t].ret = "ok" <=> InUnitInterval(frame[t].value)
            /\ frame[t].ret = "ok" => frame[t].ret_loc = frame[t].value

\* C14: construction of a Location from a value succeeds if and only if the
\* value lies in [0,1] and then holds exactly that value, fails without
\* aborting otherwise, and so every constructed Location and every Distance
\* derived from constructed Locations lies in [0,1].
C14_ConstructedWithinUnitInterval ==
    /\ TryFromValidates
    /\ \A t \in Threads :
          /\ (pc[t] \in {"rand_ret", "tf_ret", "de_ret"} /\ frame[t].ret = "ok") =>
                InUnitInterval(frame[t].ret_loc)
          /\ pc[t] = "cdist_ret" => InUnitInterval(frame[t].ret_dist)

\* The list median_distance_to builds for should_accept on table cbl.
DistancesOf(cbl, to) == SortByKey(ConnectionsByDistance(cbl, to))

\* C15: should_accept decides on one state of the table: from the moment it
\* has read the table to its return, the table still has the count it was
\* compared with, the sorted distance list and the median index in use are
\* those of the table as it is, and the decision held is the decision on it; no
\* write of the connection manager falls between.
C15_OneSnapshot ==
    \A t \in Threads :
        LET f == frame[t]
            cbl == connections_by_location
        IN  /\ (InShouldAccept(t) /\ pc[t] # "panicked") =>
                  f.cbl_len = len(cbl)
            /\ (f.nested /\ pc[t] \in {"md_cbd", "md_len", "md_index"}) =>
                  AdmissionBranch(cbl, f.my_location, f.location) = "median"
            /\ (f.nested /\ pc[t] \in {"md_len", "md_index"}) =>
                  f.conn_by_dist = DistancesOf(cbl, f.my_location)
            /\ (f.nested /\ pc[t] = "md_index") =>
                  /\ f.idx = len(cbl) \div 2
                  /\ f.idx < Len(f.conn_by_dist)
            /\ pc[t] = "sa_ret" =>
                  LET b == AdmissionBranch(cbl, f.my_location, f.location)
                  IN  f.ret_bool =
                         IF b = "median"
                         THEN distance(f.my_location, f.location)
                                  < MedianDistanceTo(cbl, f.my_location)
                         ELSE b = "true"

\* should_accept has taken the median path and holds its decision while a
\* writer, which has already written once, waits for the lock.
C15_Witness ==
    \E t \in Threads, u \in Threads :
        /\ pc[t] = "sa_ret"
        /\ frame[t].nested
        /\ pc[u] = "w_wait"
        /\ writes > 0

\* Thread t is about to insert, or is inserting, the candidate it was told to
\* accept.
InsertPending(t) ==
    \/ pc[t] = "accepted"
    \/ pc[t] \in {"w_lock", "w_wait"} /\ frame[t].wr_op = "insert"

\* C16: when every insertion is of a candidate for which should_accept(own,
\* candidate) has just returned true, with no other insertion in between and
\* removals at any time, the table never holds more than MAX_CONNECTIONS
\* entries, never holds own's Location as a key, and every insertion is of a
\* key the table does not hold, into a table below MAX_CONNECTIONS.
C16_SerialisedAdmission ==
    /\ len(connections_by_location) <= MAX_CONNECTIONS
    /\ ~contains_key(connections_by_location, Own)
    /\ \A t \in Threads :
          InsertPending(t) =>
              /\ frame[t].location # Own
              /\ ~contains_key(connections_by_location, frame[t].location)
              /\ len(connections_by_location) < MAX_CONNECTIONS

\* The insertion of an accepted candidate has just filled the table to
\* MAX_CONNECTIONS.
C16_Witness ==
    \E t \in Threads :
        /\ pc[t] = "w_done"
        /\ frame[t].wr_op = "insert"
        /\ contains_key(connections_by_location, frame[t].location)
        /\ len(connections_by_location) = MAX_CONNECTIONS

\* C17: in the median-gated range, with a fixed own Location, serialised
\* admission and no removal since the decision, the insertion of an accepted
\* candidate leaves median_distance_to(own) at or below its value before the
\* insertion.
C17_MedianNeverLoosens ==
    [][\A t \in Threads :
          (/\ pc[t] = "w_wait"
           /\ pc'[t] = "w_done"
           /\ frame[t].wr_op = "insert"
           /\ frame[t].cbl_len = len(connections_by_location)
           /\ MIN_CONNECTIONS <= len(connections_by_location)
           /\ len(connections_by_location) < MAX_CONNECTIONS) =>
              /\ len(connections_by_location') = len(connections_by_location) + 1
              /\ MedianDistanceTo(connections_by_location', frame[t].my_location)
                    <= MedianDistanceTo(connections_by_location, frame[t].my_location)]_vars

\* An accepted candidate has just been inserted in the median-gated range, and
\* the median distance to own has dropped.
C17_Witness ==
    \E t \in Threads :
        /\ pc[t] = "w_done"
        /\ frame[t].wr_op = "insert"
        /\ frame[t].cbl_len = len(connections_by_location) - 1
        /\ frame[t].cbl_len >= MIN_CONNECTIONS
        /\ contains_key(connections_by_location, frame[t].location)
        /\ MedianDistanceTo(connections_by_location, frame[t].my_location)
              < MedianDistanceTo(MapRemove(connections_by_location, frame[t].location),
                                 frame[t].my_location)

\* C18: a direct call of median_distance_to on a table that is not empty when
\* the call starts never indexes its distance list out of range, whatever the
\* writers do meanwhile: the index is half the length of the list it is
\* applied to. Stated for the calls whose distance list is not empty either,
\* so that a table emptied before the list is taken does not count.
C18_IndexWithinSnapshot ==
    \A t \in Threads :
        (/\ ~frame[t].nested
         /\ frame[t].len_at_call > 0
         /\ Len(frame[t].conn_by_dist) > 0
         /\ pc[t] \in {"md_index", "panicked"}) =>
            /\ pc[t] # "panicked"
            /\ InBounds(frame[t].conn_by_dist, frame[t].idx)
            /\ frame[t].idx = MedianIndex(Len(frame[t].conn_by_dist))

====
